---- MODULE Spec2Model ----
(***************************************************************************)
(* Fraud monitor: the transactions table, the transaction-creation handler *)
(* and the fraud scoring engine runFraudDetection.                          *)
(*                                                                         *)
(* Units.  Money is an integer number of thousandths of a dollar, so that  *)
(* an amount with two decimals and the half of a threshold with two        *)
(* decimals are both exact integers.  Time is in milliseconds, as          *)
(* Date.getTime() returns it.                                              *)
(*                                                                         *)
(* Strings built by template literals are sequences of tokens; a token is  *)
(* either a piece of literal text or an interpolated number.               *)
(***************************************************************************)
EXTENDS Integers, Sequences, FiniteSets, TLC

VARIABLES
    store,   \* the transactions table: the rows in insertion order
    now,     \* the clock new Date() reads, in milliseconds
    call,    \* the handler call of the last step and its arguments
    result,  \* what that call returned or threw
    locals,  \* runFraudDetection's riskScore after each check, and fraudReasons
    pending  \* the calls awaiting the database: runFraudDetection calls
             \* their history query, createTransaction calls their insert

vars == <<store, now, call, result, locals, pending>>

----------------------------------------------------------------------------
(* Bounds of the model *)

MaxStore == 2
MaxTicks == 5

----------------------------------------------------------------------------
(* Values *)

Dollars(d) == d * 1000

Users == {"user1", "user2"}

Txt(s) == [s |-> s, n |-> 0]
Num(n) == [s |-> "#", n |-> n]

Null == [null |-> TRUE, text |-> <<>>]
Str(tokens) == [null |-> FALSE, text |-> tokens]

Min(a, b) == IF a < b THEN a ELSE b

RECURSIVE Perms(_)
Perms(S) ==
    IF S = {} THEN {<<>>}
    ELSE UNION {{<<x>> \o p : p \in Perms(S \ {x})} : x \in S}

(* join that drops the separator *)
RECURSIVE join_noSeparator(_, _)
join_noSeparator(arr, sep) ==
    IF Len(arr) = 0 THEN <<>>
    ELSE arr[1] \o join_noSeparator(Tail(arr), sep)

(* Array.prototype.join *)
RECURSIVE join(_, _)
join(arr, sep) ==
    IF Len(arr) = 0 THEN <<>>
    ELSE IF Len(arr) = 1 THEN arr[1]
    ELSE arr[1] \o <<Txt(sep)>> \o join(Tail(arr), sep)

(* Array.prototype.sort((a, b) => a - b) *)
RECURSIVE insertAsc(_, _)
insertAsc(x, s) ==
    IF Len(s) = 0 THEN <<x>>
    ELSE IF x - s[1] <= 0 THEN <<x>> \o s
    ELSE <<s[1]>> \o insertAsc(x, Tail(s))

RECURSIVE sortAsc(_)
sortAsc(s) ==
    IF Len(s) = 0 THEN <<>>
    ELSE insertAsc(s[1], sortAsc(Tail(s)))

(* amount.toString() stored in a numeric(12, 2) column: the value is rounded
   to two decimals; a stored amount is a whole number of cents *)
toNumeric(amount) == (amount + 5) \div 10

(* parseFloat of a stored numeric(12, 2) amount *)
parseFloat(numeric) == numeric * 10

----------------------------------------------------------------------------
(* Configuration *)

DefaultConfig ==
    [high_amount_threshold |-> Dollars(10000),
     frequency_threshold |-> 5,
     time_window_minutes |-> 1]

FRAUD_CONFIG ==
    [high_amount_threshold |-> Dollars(10000),
     frequency_threshold |-> 5,
     time_window_minutes |-> 1]

----------------------------------------------------------------------------
(* The scoring engine, server/src/handlers/run_fraud_detection *)

(* the high-amount comparison made inclusive *)
highAmount_inclusive(amount, config) == amount >= config.high_amount_threshold

(* Check 1: High amount threshold *)
highAmount(amount, config) == amount > config.high_amount_threshold

highAmountReason(amount, config) ==
    <<Txt("High transaction amount: $"), Num(amount),
      Txt(" exceeds threshold of $"), Num(config.high_amount_threshold)>>

(* timeWindowStart.setMinutes(timeWindowStart.getMinutes() - time_window_minutes) *)
timeWindowStart(at, config) == at - config.time_window_minutes * 60000

(* the rows the history query matches; the query states no order *)
(* the lower bound of the window taken exclusive *)
recentRows_exclusive(rows, userId, since) ==
    {i \in DOMAIN rows :
        rows[i].user_id = userId /\ rows[i].timestamp > since}

recentRows(rows, userId, since) ==
    {i \in DOMAIN rows : rows[i].user_id = userId /\ rows[i].timestamp >= since}

(* the frequency count without the current transaction *)
totalTransactionCount_storedOnly(recentTransactions) == Len(recentTransactions)

(* the frequency rule only at exactly the threshold *)
highFrequency_exact(recentTransactions, config) ==
    Len(recentTransactions) + 1 = config.frequency_threshold

(* Check 2: frequency, the current transaction included *)
totalTransactionCount(recentTransactions) == Len(recentTransactions) + 1

highFrequency(recentTransactions, config) ==
    totalTransactionCount(recentTransactions) >= config.frequency_threshold

highFrequencyReason(recentTransactions, config) ==
    <<Txt("High transaction frequency: "),
      Num(totalTransactionCount(recentTransactions)),
      Txt(" transactions in "), Num(config.time_window_minutes),
      Txt(" minute(s), threshold is "), Num(config.frequency_threshold)>>

(* Check 3: multiple large transactions.  high_amount_threshold / 2: a
   threshold has at most two decimals, so its half is a whole number of
   thousandths *)
halfThreshold(config) == config.high_amount_threshold \div 2

largeTransactions(recentTransactions, config) ==
    SelectSeq(recentTransactions,
              LAMBDA t : parseFloat(t.amount) > halfThreshold(config))

(* the candidate counted as large at exactly half the threshold *)
currentTransactionIsLarge_inclusive(amount, config) ==
    amount >= config.high_amount_threshold \div 2

currentTransactionIsLarge(amount, config) == amount > halfThreshold(config)

totalLargeTransactions(amount, recentTransactions, config) ==
    Len(largeTransactions(recentTransactions, config))
        + (IF currentTransactionIsLarge(amount, config) THEN 1 ELSE 0)

(* one large transaction taken for several *)
multipleLarge_single(amount, recentTransactions, config) ==
    Len(SelectSeq(recentTransactions,
                  LAMBDA t : t.amount * 10 > config.high_amount_threshold \div 2))
        + (IF amount > config.high_amount_threshold \div 2 THEN 1 ELSE 0) >= 1

multipleLarge(amount, recentTransactions, config) ==
    totalLargeTransactions(amount, recentTransactions, config) >= 2

multipleLargeReason(amount, recentTransactions, config) ==
    <<Txt("Multiple large transactions detected: "),
      Num(totalLargeTransactions(amount, recentTransactions, config)),
      Txt(" transactions over $"), Num(halfThreshold(config)),
      Txt(" in "), Num(config.time_window_minutes), Txt(" minute(s)")>>

(* the timestamps left in the order the query returned them *)
timestamps_unsorted(recentTransactions) ==
    [i \in DOMAIN recentTransactions |-> recentTransactions[i].timestamp]

(* two transactions exactly 30 seconds apart taken for rapid *)
rapidSuccession_inclusive(recentTransactions) ==
    LET ts == sortAsc([i \in DOMAIN recentTransactions |->
                          recentTransactions[i].timestamp])
    IN  \E i \in 2..Len(ts) : ts[i] - ts[i - 1] <= 30000

(* only the two earliest transactions compared *)
rapidSuccession_firstPairOnly(recentTransactions) ==
    LET ts == sortAsc([i \in DOMAIN recentTransactions |->
                          recentTransactions[i].timestamp])
    IN  Len(ts) >= 2 /\ ts[2] - ts[1] < 30000

(* Check 4: rapid successive transactions *)
timestamps(recentTransactions) ==
    sortAsc([i \in DOMAIN recentTransactions |-> recentTransactions[i].timestamp])

rapidSuccession(recentTransactions) ==
    LET ts == timestamps(recentTransactions)
    IN  \E i \in 2..Len(ts) : ts[i] - ts[i - 1] < 30000

rapidCheck(recentTransactions) ==
    Len(recentTransactions) >= 2 /\ rapidSuccession(recentTransactions)

rapidReason ==
    <<Txt("Rapid successive transactions detected within 30 seconds")>>

(* the score left uncapped *)
capRiskScore_uncapped(riskScore) == riskScore

(* suspicious only strictly above 50 *)
isSuspicious_strict(riskScore) == riskScore > 50

(* suspicious as soon as any check added points *)
isSuspicious_anyPoints(riskScore) == riskScore > 0

(* the reasons joined even when there are none *)
fraudReason_neverNull(fraudReasons) == Str(join(fraudReasons, "; "))

(* Cap risk score at 100 *)
capRiskScore(riskScore) == Min(riskScore, 100)

isSuspicious(riskScore) == riskScore >= 50

fraudReason(fraudReasons) ==
    IF Len(fraudReasons) > 0 THEN Str(join(fraudReasons, "; ")) ELSE Null

(* The body of runFraudDetection once the history query has returned
   recentTransactions: the running riskScore after each of the four checks,
   the reasons pushed, and the verdict returned. *)
score(amount, config, recentTransactions) ==
    LET c1 == highAmount(amount, config)
        c2 == highFrequency(recentTransactions, config)
        c3 == multipleLarge(amount, recentTransactions, config)
        c4 == rapidCheck(recentTransactions)
        r1 == IF c1 THEN 50 ELSE 0
        r2 == IF c2 THEN r1 + 35 ELSE r1
        r3 == IF c3 THEN r2 + 50 ELSE r2
        r4 == IF c4 THEN r3 + 20 ELSE r3
        fraudReasons ==
            (IF c1 THEN <<highAmountReason(amount, config)>> ELSE <<>>)
            \o (IF c2 THEN <<highFrequencyReason(recentTransactions, config)>>
                ELSE <<>>)
            \o (IF c3
                THEN <<multipleLargeReason(amount, recentTransactions, config)>>
                ELSE <<>>)
            \o (IF c4 THEN <<rapidReason>> ELSE <<>>)
        riskScore == capRiskScore(r4)
    IN  [locals |-> [riskScore |-> <<r1, r2, r3, r4>>,
                     fraudReasons |-> fraudReasons],
         verdict |-> [is_suspicious |-> isSuspicious(riskScore),
                      fraud_reason |-> fraudReason(fraudReasons),
                      risk_score |-> riskScore]]

----------------------------------------------------------------------------
(* Transaction creation, server/src/handlers/create_transaction *)

(* the inline checks with an amount at the threshold let through *)
createTransaction_runFraudDetection_strict(rows, user_id, amount, timestamp) ==
    LET windowStart ==
            timestamp - (FRAUD_CONFIG.time_window_minutes * 60 * 1000)
        recentTransactionCount ==
            Cardinality(recentRows(rows, user_id, windowStart))
        suspiciousReasons ==
            (IF amount > FRAUD_CONFIG.high_amount_threshold
             THEN <<(<<Txt("High amount: $"), Num(amount)>>)>>
             ELSE <<>>)
            \o (IF recentTransactionCount >= FRAUD_CONFIG.frequency_threshold
                THEN <<(<<Txt("High frequency: "), Num(recentTransactionCount),
                          Txt(" transactions in "),
                          Num(FRAUD_CONFIG.time_window_minutes),
                          Txt(" minute(s)")>>)>>
                ELSE <<>>)
    IN  [is_suspicious |-> Len(suspiciousReasons) > 0,
         fraud_reason |-> IF Len(suspiciousReasons) > 0
                          THEN Str(join(suspiciousReasons, "; "))
                          ELSE Null]

(* the fraud checks createTransaction runs inline before the insert *)
createTransaction_runFraudDetection(rows, user_id, amount, timestamp) ==
    LET windowStart ==
            timestamp - (FRAUD_CONFIG.time_window_minutes * 60 * 1000)
        recentTransactionCount ==
            Cardinality(recentRows(rows, user_id, windowStart))
        suspiciousReasons ==
            (IF amount >= FRAUD_CONFIG.high_amount_threshold
             THEN <<(<<Txt("High amount: $"), Num(amount)>>)>>
             ELSE <<>>)
            \o (IF recentTransactionCount >= FRAUD_CONFIG.frequency_threshold
                THEN <<(<<Txt("High frequency: "), Num(recentTransactionCount),
                          Txt(" transactions in "),
                          Num(FRAUD_CONFIG.time_window_minutes),
                          Txt(" minute(s)")>>)>>
                ELSE <<>>)
    IN  [is_suspicious |-> Len(suspiciousReasons) > 0,
         fraud_reason |-> IF Len(suspiciousReasons) > 0
                          THEN Str(join(suspiciousReasons, "; "))
                          ELSE Null]

----------------------------------------------------------------------------
(* State machine *)

NoCall == [op |-> "none"]
NoResult == [ok |-> TRUE]
NoLocals == [riskScore |-> <<>>, fraudReasons |-> <<>>]

Init ==
    /\ store = <<>>
    /\ now = 0
    /\ call = NoCall
    /\ result = NoResult
    /\ locals = NoLocals
    /\ pending = {}

(* the clock moves on between two requests *)
Advance ==
    /\ call = NoCall
    /\ now + 15000 <= MaxTicks * 15000
    /\ now' = now + 15000
    /\ UNCHANGED <<store, call, result, locals, pending>>

(* createTransaction(input), the table holding at most maxRows rows.
   Transaction ids are opaque texts, named by number here; the serial id of
   a row is its position in the table. *)
createTransactionUpTo(input, maxRows) ==
    LET fraudAnalysis ==
            createTransaction_runFraudDetection(store, input.user_id,
                                                input.amount, now)
        row == [id |-> Len(store) + 1,
                transaction_id |-> input.transaction_id,
                user_id |-> input.user_id,
                amount |-> toNumeric(input.amount),
                timestamp |-> now,
                status |-> input.status,
                is_suspicious |-> fraudAnalysis.is_suspicious,
                fraud_reason |-> fraudAnalysis.fraud_reason,
                created_at |-> now]
    IN  /\ call = NoCall
        /\ call' = [op |-> "createTransaction", input |-> input]
        /\ locals' = NoLocals
        /\ UNCHANGED <<now, pending>>
        /\ IF \E i \in DOMAIN store :
                   store[i].transaction_id = input.transaction_id
           THEN \* unique(transaction_id) rejects the insert; the error is rethrown
                /\ result' = [ok |-> FALSE, error |-> "unique violation"]
                /\ UNCHANGED store
           ELSE /\ Len(store) < maxRows
                /\ store' = Append(store, row)
                /\ result' = [ok |-> TRUE,
                              value |-> [row EXCEPT
                                            !.amount = parseFloat(row.amount)]]

createTransaction(input) == createTransactionUpTo(input, MaxStore)

(* What the history query of a call can do: fail, or return the matching
   rows in an order the query does not determine. *)
queryOutcomes(rows, userId, since) ==
    {[failed |-> TRUE, rows |-> <<>>]}
    \cup {[failed |-> FALSE, rows |-> [k \in DOMAIN order |-> rows[order[k]]]] :
            order \in Perms(recentRows(rows, userId, since))}

(* the error of the query taken for an empty history *)
afterQuery_emptyOnError(amount, config, query) ==
    LET out == score(amount, config, query.rows)
    IN  [result |-> [ok |-> TRUE, value |-> out.verdict],
         locals |-> out.locals]

(* runFraudDetection from the await of the history query on: an error is
   logged and rethrown, check 1 having run; the rows are scored. *)
afterQuery(amount, config, query) ==
    IF query.failed
    THEN [result |-> [ok |-> FALSE, error |-> "query failed"],
          locals |-> [riskScore |->
                          <<IF highAmount(amount, config) THEN 50 ELSE 0>>,
                      fraudReasons |->
                          IF highAmount(amount, config)
                          THEN <<highAmountReason(amount, config)>>
                          ELSE <<>>]]
    ELSE LET out == score(amount, config, query.rows)
         IN  [result |-> [ok |-> TRUE, value |-> out.verdict],
              locals |-> out.locals]

(* runFraudDetection(userId, amount, config), the query answered at once.
   call.at is the clock the window was computed from and call.historyQuery
   what the query did. *)
runFraudDetection(userId, amount, config) ==
    /\ call = NoCall
    /\ UNCHANGED <<store, now, pending>>
    /\ \E query \in queryOutcomes(store, userId, timeWindowStart(now, config)) :
           /\ call' = [op |-> "runFraudDetection",
                       userId |-> userId,
                       amount |-> amount,
                       config |-> config,
                       at |-> now,
                       historyQuery |-> IF query.failed THEN "rejected"
                                        ELSE "resolved"]
           /\ result' = afterQuery(amount, config, query).result
           /\ locals' = afterQuery(amount, config, query).locals

(* the response of the call is delivered; the server takes the next request *)
respond ==
    /\ call # NoCall
    /\ call' = NoCall
    /\ result' = NoResult
    /\ locals' = NoLocals
    /\ UNCHANGED <<store, now, pending>>

(* Inputs *)

CustomConfig ==
    [high_amount_threshold |-> Dollars(5000),
     frequency_threshold |-> 2,
     time_window_minutes |-> 5]

EveryTransactionConfig ==
    [high_amount_threshold |-> Dollars(10000),
     frequency_threshold |-> 1,
     time_window_minutes |-> 1]

Configs == {DefaultConfig, CustomConfig, EveryTransactionConfig}

ScoreAmounts == {Dollars(100), Dollars(5000), Dollars(10000), Dollars(12000)}

CreateInputs ==
    {[transaction_id |-> t, user_id |-> ua[1], amount |-> ua[2],
      status |-> "pending"] :
        t \in {1, Len(store) + 1},
        ua \in {<<"user1", Dollars(100)>>, <<"user1", Dollars(6000)>>,
                <<"user2", Dollars(6000)>>}}

Next ==
    \/ Advance
    \/ \E input \in CreateInputs : createTransaction(input)
    \/ \E userId \in Users, amount \in ScoreAmounts, config \in Configs :
           runFraudDetection(userId, amount, config)
    \/ respond

Spec == Init /\ [][Next]_vars

----------------------------------------------------------------------------
(* Manual review, server/src/handlers/update_transaction_status.  An input
   without fraud_reason is a record without that field. *)

Statuses == {"pending", "completed", "failed", "flagged"}

(* is_suspicious left out of the update *)
updateValues_statusOnly(input) ==
    IF "fraud_reason" \in DOMAIN input
    THEN [status |-> input.status, fraud_reason |-> input.fraud_reason]
    ELSE [status |-> input.status]

(* the values of the UPDATE: status and is_suspicious always, fraud_reason
   when the input has one, null included *)
updateValues(input) ==
    IF "fraud_reason" \in DOMAIN input
    THEN [status |-> input.status,
          is_suspicious |-> input.status = "flagged",
          fraud_reason |-> input.fraud_reason]
    ELSE [status |-> input.status,
          is_suspicious |-> input.status = "flagged"]

(* a suspicious row never cleared *)
set_keepsSuspicious(row, values) ==
    [row EXCEPT
        !.status = values.status,
        !.is_suspicious = @ \/ values.is_suspicious,
        !.fraud_reason = IF "fraud_reason" \in DOMAIN values
                         THEN values.fraud_reason ELSE @]

(* fraud_reason written as null when the input has none *)
set_clearsReason(row, values) ==
    [row EXCEPT
        !.status = values.status,
        !.is_suspicious = values.is_suspicious,
        !.fraud_reason = IF "fraud_reason" \in DOMAIN values
                         THEN values.fraud_reason ELSE Null]

(* .set(updateValues): the columns named are written, the others kept *)
set(row, values) ==
    [row EXCEPT
        !.status = IF "status" \in DOMAIN values
                   THEN values.status ELSE @,
        !.is_suspicious = IF "is_suspicious" \in DOMAIN values
                          THEN values.is_suspicious ELSE @,
        !.fraud_reason = IF "fraud_reason" \in DOMAIN values
                         THEN values.fraud_reason ELSE @]

(* the UPDATE without its WHERE clause *)
where_everyRow(rows, id) == DOMAIN rows

(* .where(eq(transactionsTable.id, input.id)) *)
where(rows, id) == {i \in DOMAIN rows : rows[i].id = id}

(* updateTransactionStatus(input) *)
updateTransactionStatus(input) ==
    LET hit == where(store, input.id)
        updated == [i \in DOMAIN store |->
                       IF i \in hit
                       THEN set(store[i], updateValues(input))
                       ELSE store[i]]
        transaction == updated[CHOOSE i \in hit : \A j \in hit : i <= j]
    IN  /\ call = NoCall
        /\ call' = [op |-> "updateTransactionStatus", input |-> input]
        /\ store' = updated
        /\ locals' = NoLocals
        /\ UNCHANGED <<now, pending>>
        /\ IF hit = {}
           THEN result' = [ok |-> FALSE, error |-> "not found"]
           ELSE result' = [ok |-> TRUE,
                           value |-> [transaction EXCEPT
                                         !.amount = parseFloat(@)]]

ManualReason == Str(<<Txt("Manual review required")>>)

ReviewInputs ==
    {[id |-> id, status |-> status] :
        id \in 1..(Len(store) + 1), status \in Statuses}
    \cup {[id |-> id, status |-> status, fraud_reason |-> reason] :
            id \in 1..(Len(store) + 1), status \in Statuses,
            reason \in {Null, ManualReason}}

ReviewCreateInputs ==
    {[transaction_id |-> Len(store) + 1, user_id |-> "user1",
      amount |-> amount, status |-> status] :
        amount \in {Dollars(100), Dollars(12000)},
        status \in {"pending", "flagged"}}

NextReview ==
    \/ \E input \in ReviewCreateInputs : createTransaction(input)
    \/ \E input \in ReviewInputs : updateTransactionStatus(input)
    \/ respond

SpecReview == Init /\ [][NextReview]_vars

----------------------------------------------------------------------------
(* A burst of transactions of one user: enough rows to reach the frequency
   threshold of createTransaction, the clock moving a minute at a time. *)

MaxBurst == 6
MaxMinutes == 2

AdvanceMinute ==
    /\ call = NoCall
    /\ now + 60000 <= MaxMinutes * 60000
    /\ now' = now + 60000
    /\ UNCHANGED <<store, call, result, locals, pending>>

BurstInputs ==
    {[transaction_id |-> Len(store) + 1, user_id |-> "user1",
      amount |-> amount, status |-> "pending"] :
        amount \in {Dollars(10000) - 5, Dollars(10000)}}

NextBurst ==
    \/ AdvanceMinute
    \/ \E input \in BurstInputs : createTransactionUpTo(input, MaxBurst)
    \/ respond

SpecBurst == Init /\ [][NextBurst]_vars

----------------------------------------------------------------------------
(* Listing, server/src/handlers/get_transactions.  A call without input is
   Undefined; an input without user_id or is_suspicious is a record without
   that field. *)

Undefined == [undefined |-> TRUE]

(* the value of the parameter: input = { limit: 100, offset: 0 } *)
inputOrDefault(input) ==
    IF "undefined" \in DOMAIN input THEN [limit |-> 100, offset |-> 0]
    ELSE input

(* the rows that satisfy the conditions pushed for the filters given *)
conditions(rows, input) ==
    {i \in DOMAIN rows :
        /\ "user_id" \in DOMAIN input => rows[i].user_id = input.user_id
        /\ "is_suspicious" \in DOMAIN input =>
               rows[i].is_suspicious = input.is_suspicious}

(* rows of equal timestamp always in insertion order *)
orderByTimestampDesc_stable(rows, selected) ==
    {order \in Perms(selected) :
        \A k \in 1..(Len(order) - 1) :
            \/ rows[order[k]].timestamp > rows[order[k + 1]].timestamp
            \/ /\ rows[order[k]].timestamp = rows[order[k + 1]].timestamp
               /\ order[k] < order[k + 1]}

(* rows ordered by ascending timestamp *)
orderByTimestampDesc_ascending(rows, selected) ==
    {order \in Perms(selected) :
        \A k \in 1..(Len(order) - 1) :
            rows[order[k]].timestamp <= rows[order[k + 1]].timestamp}

(* .orderBy(desc(transactionsTable.timestamp)): the orders the query may
   return the selected rows in; rows of equal timestamp come in any order *)
orderByTimestampDesc(rows, selected) ==
    {order \in Perms(selected) :
        \A k \in 1..(Len(order) - 1) :
            rows[order[k]].timestamp >= rows[order[k + 1]].timestamp}

(* .limit(limit).offset(offset) *)
limitOffset(order, limit, offset) ==
    SubSeq(order, offset + 1, Min(offset + limit, Len(order)))

(* results.map: the rows with their amounts as numbers *)
asTransactions(rows, order) ==
    [k \in DOMAIN order |->
        [rows[order[k]] EXCEPT !.amount = parseFloat(@)]]

(* what getTransactions(input) can return for the table rows *)
getTransactionsResults(rows, input) ==
    LET params == inputOrDefault(input)
    IN  {asTransactions(rows, limitOffset(order, params.limit, params.offset)) :
            order \in orderByTimestampDesc(rows, conditions(rows, params))}

getTransactions(input) ==
    /\ call = NoCall
    /\ call' = [op |-> "getTransactions", input |-> input]
    /\ \E transactions \in getTransactionsResults(store, input) :
           result' = [ok |-> TRUE, value |-> transactions]
    /\ locals' = NoLocals
    /\ UNCHANGED <<store, now, pending>>

----------------------------------------------------------------------------
(* Per-user summary, server/src/handlers/get_user_transaction_summary *)

NoDate == [null |-> TRUE, time |-> 0]
Date(time) == [null |-> FALSE, time |-> time]

(* the rows of every user *)
whereUser_everyone(rows, userId) == DOMAIN rows

(* .where(eq(transactionsTable.user_id, userId)) *)
whereUser(rows, userId) == {i \in DOMAIN rows : rows[i].user_id = userId}

(* transactions.reduce((sum, t) => sum + parseFloat(t.amount), 0) *)
RECURSIVE reduceSum(_)
reduceSum(transactions) ==
    IF Len(transactions) = 0 THEN 0
    ELSE reduceSum(SubSeq(transactions, 1, Len(transactions) - 1))
             + parseFloat(transactions[Len(transactions)].amount)

(* Math.max(...transactions.map(t => t.timestamp.getTime())) *)
mathMax(transactions) ==
    CHOOSE t \in {transactions[k].timestamp : k \in DOMAIN transactions} :
        \A k \in DOMAIN transactions : transactions[k].timestamp <= t

(* the summary computed from the rows the query returned *)
summary(userId, transactions) ==
    [user_id |-> userId,
     total_transactions |-> Len(transactions),
     total_amount |-> reduceSum(transactions),
     suspicious_transactions |->
         Len(SelectSeq(transactions, LAMBDA t : t.is_suspicious)),
     last_transaction_at |->
         IF Len(transactions) > 0 THEN Date(mathMax(transactions))
         ELSE NoDate]

getUserTransactionSummary(userId) ==
    /\ call = NoCall
    /\ call' = [op |-> "getUserTransactionSummary", userId |-> userId]
    /\ \E order \in Perms(whereUser(store, userId)) :
           result' = [ok |-> TRUE,
                      value |-> summary(userId,
                                        [k \in DOMAIN order |-> store[order[k]]])]
    /\ locals' = NoLocals
    /\ UNCHANGED <<store, now, pending>>

----------------------------------------------------------------------------
(* Listing and summaries over a table of a few transactions of two users *)

MaxListed == 3

ListCreateInputs ==
    {[transaction_id |-> Len(store) + 1, user_id |-> ua[1], amount |-> ua[2],
      status |-> "pending"] :
        ua \in {<<"user1", Dollars(100)>>, <<"user1", Dollars(12000)>>,
                <<"user2", Dollars(100)>>}}

Pages == {<<1, 0>>, <<1, 1>>, <<2, 0>>, <<2, 2>>, <<100, 0>>}

GetTransactionsInputs ==
    {Undefined}
    \cup {[limit |-> p[1], offset |-> p[2]] : p \in Pages}
    \cup {[user_id |-> "user1", limit |-> p[1], offset |-> p[2]] : p \in Pages}
    \cup {[is_suspicious |-> b, limit |-> p[1], offset |-> p[2]] :
            b \in BOOLEAN, p \in Pages}
    \cup {[user_id |-> "user1", is_suspicious |-> b,
           limit |-> p[1], offset |-> p[2]] : b \in BOOLEAN, p \in Pages}

NextList ==
    \/ AdvanceMinute
    \/ \E input \in ListCreateInputs : createTransactionUpTo(input, MaxListed)
    \/ \E input \in GetTransactionsInputs : getTransactions(input)
    \/ \E userId \in Users : getUserTransactionSummary(userId)
    \/ respond

SpecList == Init /\ [][NextList]_vars

----------------------------------------------------------------------------
(* Monitoring, server/src/handlers/get_suspicious_transactions *)

(* .where(eq(transactionsTable.is_suspicious, true)) *)
whereSuspicious(rows) == {i \in DOMAIN rows : rows[i].is_suspicious = TRUE}

getSuspiciousTransactions ==
    /\ call = NoCall
    /\ call' = [op |-> "getSuspiciousTransactions"]
    /\ \E order \in orderByTimestampDesc(store, whereSuspicious(store)) :
           result' = [ok |-> TRUE, value |-> asTransactions(store, order)]
    /\ locals' = NoLocals
    /\ UNCHANGED <<store, now, pending>>

MonitorCreateInputs ==
    {[transaction_id |-> Len(store) + 1, user_id |-> "user1",
      amount |-> amount, status |-> "pending"] :
        amount \in {Dollars(100), Dollars(12000)}}

(* a reviewer flags a transaction without giving a reason *)
FlagInputs == {[id |-> id, status |-> "flagged"] : id \in 1..Len(store)}

NextMonitor ==
    \/ AdvanceMinute
    \/ \E input \in MonitorCreateInputs :
           createTransactionUpTo(input, MaxListed)
    \/ \E input \in FlagInputs : updateTransactionStatus(input)
    \/ getSuspiciousTransactions
    \/ respond

SpecMonitor == Init /\ [][NextMonitor]_vars

----------------------------------------------------------------------------
(* The runFraudDetection procedure of the router.  Its input is parsed by
   z.object({user_id, amount, config: fraudDetectionConfigSchema.optional()});
   an input without config, and a config without some of its fields, are
   records without those fields. *)

(* a config missing a field replaced by the defaults as a whole *)
fraudDetectionConfigSchema_allOrNothing(config) ==
    IF DOMAIN config = DOMAIN DefaultConfig THEN config ELSE DefaultConfig

(* fraudDetectionConfigSchema.parse: each field has its own .default() *)
fraudDetectionConfigSchema(config) ==
    [high_amount_threshold |->
         IF "high_amount_threshold" \in DOMAIN config
         THEN config.high_amount_threshold ELSE Dollars(10000),
     frequency_threshold |->
         IF "frequency_threshold" \in DOMAIN config
         THEN config.frequency_threshold ELSE 5,
     time_window_minutes |->
         IF "time_window_minutes" \in DOMAIN config
         THEN config.time_window_minutes ELSE 1]

(* input.config as runFraudDetection receives it: parsed when present,
   undefined otherwise, and then the default value of the parameter *)
procedureConfig(input) ==
    IF "config" \in DOMAIN input
    THEN fraudDetectionConfigSchema(input.config)
    ELSE DefaultConfig

(* .query(({ input }) =>
       runFraudDetection(input.user_id, input.amount, input.config)) *)
appRouter_runFraudDetection(input) ==
    LET config == procedureConfig(input)
    IN  /\ call = NoCall
        /\ UNCHANGED <<store, now, pending>>
        /\ \E query \in queryOutcomes(store, input.user_id,
                                      timeWindowStart(now, config)) :
               /\ call' = [op |-> "runFraudDetection",
                           userId |-> input.user_id,
                           amount |-> input.amount,
                           config |-> config,
                           at |-> now,
                           historyQuery |-> IF query.failed THEN "rejected"
                                            ELSE "resolved",
                           input |-> input]
               /\ result' = afterQuery(input.amount, config, query).result
               /\ locals' = afterQuery(input.amount, config, query).locals

(* the configs a client sends: any subset of the fields of customConfig, or
   the three default values spelled out *)
ProcedureConfigs ==
    {[k \in fields |-> CustomConfig[k]] : fields \in SUBSET DOMAIN CustomConfig}
    \cup {DefaultConfig}

ProcedureInputs ==
    {[user_id |-> "user1", amount |-> amount] :
        amount \in {Dollars(100), Dollars(6000)}}
    \cup {[user_id |-> "user1", amount |-> amount, config |-> config] :
            amount \in {Dollars(100), Dollars(6000)},
            config \in ProcedureConfigs}

NextProcedure ==
    \/ Advance
    \/ \E input \in CreateInputs : createTransaction(input)
    \/ \E input \in ProcedureInputs : appRouter_runFraudDetection(input)
    \/ respond

SpecProcedure == Init /\ [][NextProcedure]_vars

----------------------------------------------------------------------------
(* Concurrent requests.  runFraudDetection reads the clock, runs check 1 and
   then awaits the history query; until the query is answered the server
   takes other requests and the clock moves on. *)

MaxPending == 2

(* runFraudDetection up to the await: the clock is read for the window *)
beginFraudDetection(userId, amount, config) ==
    /\ call = NoCall
    /\ Cardinality(pending) < MaxPending
    /\ pending' = pending \cup {[userId |-> userId, amount |-> amount,
                                 config |-> config, at |-> now]}
    /\ UNCHANGED <<store, now, call, result, locals>>

(* the scoring call that also inserts the scored candidate *)
finishFraudDetection_storing(p) ==
    /\ call = NoCall
    /\ p \in pending
    /\ pending' = pending \ {p}
    /\ Len(store) < MaxStore
    /\ store' = Append(store,
                       [id |-> Len(store) + 1,
                        transaction_id |-> Len(store) + 1,
                        user_id |-> p.userId,
                        amount |-> toNumeric(p.amount),
                        timestamp |-> p.at,
                        status |-> "pending",
                        is_suspicious |-> FALSE,
                        fraud_reason |-> Null,
                        created_at |-> now])
    /\ UNCHANGED now
    /\ \E query \in queryOutcomes(store, p.userId,
                                  timeWindowStart(p.at, p.config)) :
           /\ call' = [op |-> "runFraudDetection",
                       userId |-> p.userId,
                       amount |-> p.amount,
                       config |-> p.config,
                       at |-> p.at,
                       historyQuery |-> IF query.failed THEN "rejected"
                                        ELSE "resolved"]
           /\ result' = afterQuery(p.amount, p.config, query).result
           /\ locals' = afterQuery(p.amount, p.config, query).locals

(* the history query of a pending call is answered, against the table as it
   is then, and the call runs to its end *)
finishFraudDetection(p) ==
    /\ call = NoCall
    /\ p \in pending
    /\ pending' = pending \ {p}
    /\ UNCHANGED <<store, now>>
    /\ \E query \in queryOutcomes(store, p.userId,
                                  timeWindowStart(p.at, p.config)) :
           /\ call' = [op |-> "runFraudDetection",
                       userId |-> p.userId,
                       amount |-> p.amount,
                       config |-> p.config,
                       at |-> p.at,
                       historyQuery |-> IF query.failed THEN "rejected"
                                        ELSE "resolved"]
           /\ result' = afterQuery(p.amount, p.config, query).result
           /\ locals' = afterQuery(p.amount, p.config, query).locals

ConcurrentCreateInputs ==
    {[transaction_id |-> Len(store) + 1, user_id |-> "user1",
      amount |-> Dollars(6000), status |-> "pending"]}

ConcurrentScoreAmounts == {Dollars(6000)}

NextConcurrent ==
    \/ Advance
    \/ \E input \in ConcurrentCreateInputs : createTransaction(input)
    \/ \E amount \in ConcurrentScoreAmounts :
           beginFraudDetection("user1", amount, DefaultConfig)
    \/ \E p \in pending : finishFraudDetection(p)
    \/ respond

SpecConcurrent == Init /\ [][NextConcurrent]_vars

----------------------------------------------------------------------------
(* Concurrent createTransaction calls.  The call reads the clock, awaits its
   inline fraud checks (which count the user's recent rows), and then awaits
   the insert; other calls are served between the two. *)

(* createTransaction up to the insert: p.seen is the number of rows the
   table held when the count was read *)
beginCreateTransaction(input) ==
    /\ call = NoCall
    /\ Cardinality(pending) < MaxPending
    /\ Len(store) + Cardinality(pending) < MaxBurst
    /\ pending' = pending \cup
           {[input |-> input,
             now |-> now,
             fraudAnalysis |->
                 createTransaction_runFraudDetection(store, input.user_id,
                                                     input.amount, now),
             seen |-> Len(store)]}
    /\ UNCHANGED <<store, now, call, result, locals>>

(* the fraud checks run again in one step with the insert *)
finishCreateTransaction_refetch(p) ==
    LET fraudAnalysis ==
            createTransaction_runFraudDetection(store, p.input.user_id,
                                                p.input.amount, p.now)
        row == [id |-> Len(store) + 1,
                transaction_id |-> p.input.transaction_id,
                user_id |-> p.input.user_id,
                amount |-> toNumeric(p.input.amount),
                timestamp |-> p.now,
                status |-> p.input.status,
                is_suspicious |-> fraudAnalysis.is_suspicious,
                fraud_reason |-> fraudAnalysis.fraud_reason,
                created_at |-> now]
    IN  /\ call = NoCall
        /\ p \in pending
        /\ pending' = pending \ {p}
        /\ call' = [op |-> "createTransaction", input |-> p.input,
                    seen |-> p.seen]
        /\ locals' = NoLocals
        /\ UNCHANGED now
        /\ store' = Append(store, row)
        /\ result' = [ok |-> TRUE,
                      value |-> [row EXCEPT !.amount = parseFloat(@)]]

(* the insert of a pending createTransaction, with the fraud analysis the
   call computed before *)
finishCreateTransaction(p) ==
    LET row == [id |-> Len(store) + 1,
                transaction_id |-> p.input.transaction_id,
                user_id |-> p.input.user_id,
                amount |-> toNumeric(p.input.amount),
                timestamp |-> p.now,
                status |-> p.input.status,
                is_suspicious |-> p.fraudAnalysis.is_suspicious,
                fraud_reason |-> p.fraudAnalysis.fraud_reason,
                created_at |-> now]
    IN  /\ call = NoCall
        /\ p \in pending
        /\ pending' = pending \ {p}
        /\ call' = [op |-> "createTransaction", input |-> p.input,
                    seen |-> p.seen]
        /\ locals' = NoLocals
        /\ UNCHANGED now
        /\ IF \E i \in DOMAIN store :
                   store[i].transaction_id = p.input.transaction_id
           THEN /\ result' = [ok |-> FALSE, error |-> "unique violation"]
                /\ UNCHANGED store
           ELSE /\ store' = Append(store, row)
                /\ result' = [ok |-> TRUE,
                              value |-> [row EXCEPT !.amount = parseFloat(@)]]

(* transactions of one user; each call brings a transaction id of its own,
   or the id of the first transaction again *)
RaceInputs ==
    {[transaction_id |-> t, user_id |-> "user1",
      amount |-> Dollars(100), status |-> "pending"] :
        t \in {1, Len(store) + Cardinality(pending) + 1}}

(* the calls of a race arrive within one reading of the clock *)
NextRace ==
    \/ \E input \in RaceInputs : beginCreateTransaction(input)
    \/ \E p \in pending : finishCreateTransaction(p)
    \/ respond

SpecRace == Init /\ [][NextRace]_vars

----------------------------------------------------------------------------
(* Scoring against longer histories of one user *)

MaxHistory == 3

HistoryCreateInputs ==
    {[transaction_id |-> Len(store) + 1, user_id |-> "user1",
      amount |-> amount, status |-> "pending"] :
        amount \in {Dollars(100), Dollars(6000)}}

NextHistory ==
    \/ Advance
    \/ \E input \in HistoryCreateInputs :
           createTransactionUpTo(input, MaxHistory)
    \/ \E config \in {DefaultConfig, CustomConfig} :
           runFraudDetection("user1", Dollars(6000), config)
    \/ respond

SpecHistory == Init /\ [][NextHistory]_vars

----------------------------------------------------------------------------
(* What the claims are stated over: the scoring call that has just returned,
   the history it was made against, and which rule the claims expect to
   trigger, each stated from the arguments and the table alone. *)

Scored == call.op = "runFraudDetection" /\ result.ok

History ==
    {i \in DOMAIN store :
        /\ store[i].user_id = call.userId
        /\ store[i].timestamp >= now - call.config.time_window_minutes * 60000}

LargeCount ==
    Cardinality({i \in History :
                    2 * (store[i].amount * 10) > call.config.high_amount_threshold})
        + (IF 2 * call.amount > call.config.high_amount_threshold THEN 1 ELSE 0)

(* i and j are neighbours once the timestamps of the history are in
   ascending order *)
Adjacent(i, j) ==
    /\ i # j
    /\ store[i].timestamp <= store[j].timestamp
    /\ ~\E k \in History :
           /\ store[i].timestamp < store[k].timestamp
           /\ store[k].timestamp < store[j].timestamp

ExpectHighAmount == call.amount > call.config.high_amount_threshold
ExpectHighFrequency == Cardinality(History) + 1 >= call.config.frequency_threshold
ExpectMultipleLarge == LargeCount >= 2
ExpectRapid ==
    /\ Cardinality(History) >= 2
    /\ \E i, j \in History :
           Adjacent(i, j) /\ store[j].timestamp - store[i].timestamp < 30000

(* the points check k added to riskScore *)
Contribution(k) ==
    locals.riskScore[k] - (IF k = 1 THEN 0 ELSE locals.riskScore[k - 1])

(* the reasons pushed that start with the given text *)
ReasonsOf(text) ==
    {k \in DOMAIN locals.fraudReasons : locals.fraudReasons[k][1] = Txt(text)}

HighAmountText == "High transaction amount: $"
HighFrequencyText == "High transaction frequency: "
MultipleLargeText == "Multiple large transactions detected: "
RapidText == "Rapid successive transactions detected within 30 seconds"

----------------------------------------------------------------------------
(* C1: the high-amount rule adds exactly 50 points and its reason when
   amount > high_amount_threshold, and adds nothing when amount <=
   high_amount_threshold, an amount equal to the threshold included. *)
C1_HighAmountRule ==
    Scored =>
        /\ ExpectHighAmount =>
               /\ Contribution(1) = 50
               /\ \E k \in ReasonsOf(HighAmountText) :
                      /\ locals.fraudReasons[k][2] = Num(call.amount)
                      /\ locals.fraudReasons[k][4] =
                             Num(call.config.high_amount_threshold)
        /\ ~ExpectHighAmount =>
               /\ Contribution(1) = 0
               /\ ReasonsOf(HighAmountText) = {}

C1_Witness ==
    /\ Scored
    /\ call.amount > call.config.high_amount_threshold
    /\ Contribution(1) = 50
    /\ result.value.risk_score >= 50

(* C2: with n rows in the recent history, the frequency rule adds 35 points
   and a reason reporting n + 1 iff n + 1 >= frequency_threshold. *)
C2_FrequencyRule ==
    Scored =>
        LET n == Cardinality(History)
        IN  /\ n + 1 >= call.config.frequency_threshold =>
                   /\ Contribution(2) = 35
                   /\ \E k \in ReasonsOf(HighFrequencyText) :
                          locals.fraudReasons[k][2] = Num(n + 1)
            /\ n + 1 < call.config.frequency_threshold =>
                   /\ Contribution(2) = 0
                   /\ ReasonsOf(HighFrequencyText) = {}

C2_Witness ==
    /\ Scored
    /\ Cardinality(History) >= 1
    /\ Cardinality(History) + 1 = call.config.frequency_threshold
    /\ Contribution(2) = 35

(* C3: with c the number of recent rows whose amount is strictly above half
   the threshold, plus one if the candidate amount is, the multiple-large rule
   adds 50 points and a reason reporting c iff c >= 2. *)
C3_MultipleLargeRule ==
    Scored =>
        /\ LargeCount >= 2 =>
               /\ Contribution(3) = 50
               /\ \E k \in ReasonsOf(MultipleLargeText) :
                      locals.fraudReasons[k][2] = Num(LargeCount)
        /\ LargeCount < 2 =>
               /\ Contribution(3) = 0
               /\ ReasonsOf(MultipleLargeText) = {}

C3_Witness ==
    /\ Scored
    /\ LargeCount = 2
    /\ 2 * call.amount > call.config.high_amount_threshold
    /\ Contribution(3) = 50

(* C4: the rapid-succession rule adds 20 points iff the recent history has at
   least 2 rows and two of them that are neighbours in ascending order of
   timestamp are strictly less than 30 seconds apart; the time of the call
   plays no part. *)
C4_RapidRule ==
    Scored =>
        /\ ExpectRapid =>
               Contribution(4) = 20 /\ ReasonsOf(RapidText) # {}
        /\ ~ExpectRapid =>
               Contribution(4) = 0 /\ ReasonsOf(RapidText) = {}

C4_Witness ==
    /\ Scored
    /\ Cardinality(History) >= 2
    /\ \E i, j \in History :
           /\ store[j].timestamp - store[i].timestamp > 0
           /\ store[j].timestamp - store[i].timestamp < 30000
    /\ Contribution(4) = 20

(* C5: risk_score is the sum of the points of the triggered rules (50, 35,
   50, 20) capped at 100, hence within 0..100, and is 100 when all four
   rules trigger. *)
C5_ScoreIsCappedSum ==
    Scored =>
        /\ result.value.risk_score =
               Min((IF ExpectHighAmount THEN 50 ELSE 0)
                   + (IF ExpectHighFrequency THEN 35 ELSE 0)
                   + (IF ExpectMultipleLarge THEN 50 ELSE 0)
                   + (IF ExpectRapid THEN 20 ELSE 0), 100)
        /\ result.value.risk_score \in 0..100
        /\ (ExpectHighAmount /\ ExpectHighFrequency /\ ExpectMultipleLarge
               /\ ExpectRapid) => result.value.risk_score = 100

C5_Witness ==
    /\ Scored
    /\ ExpectHighAmount /\ ExpectHighFrequency /\ ExpectMultipleLarge
    /\ ExpectRapid
    /\ locals.riskScore[4] = 155
    /\ result.value.risk_score = 100

(* C6: is_suspicious is true iff risk_score >= 50. *)
C6_SuspiciousIffScoreAtLeast50 ==
    Scored => (result.value.is_suspicious <=> result.value.risk_score >= 50)

C6_Witness ==
    Scored /\ result.value.risk_score = 50 /\ result.value.is_suspicious

(* C7: the list of reasons is empty, and fraud_reason null, iff risk_score
   is 0. *)
C7_NoReasonIffScoreZero ==
    Scored =>
        /\ (Len(locals.fraudReasons) = 0) <=> (result.value.risk_score = 0)
        /\ (result.value.fraud_reason = Null) <=> (result.value.risk_score = 0)

C7_Witness ==
    /\ Scored
    /\ result.value.risk_score = 0
    /\ result.value.fraud_reason = Null
    /\ History # {}

(* the pieces of a text between its "; " separators *)
RECURSIVE SplitAtSeparator(_)
SplitAtSeparator(text) ==
    LET seps == {k \in DOMAIN text : text[k] = Txt("; ")}
    IN  IF seps = {} THEN <<text>>
        ELSE LET k == CHOOSE m \in seps : \A o \in seps : m <= o
             IN  <<SubSeq(text, 1, k - 1)>>
                     \o SplitAtSeparator(SubSeq(text, k + 1, Len(text)))

(* one reason per rule expected to trigger, in the order high amount, high
   frequency, multiple large transactions, rapid succession *)
ExpectedReasons ==
    (IF ExpectHighAmount
     THEN <<(<<Txt(HighAmountText), Num(call.amount),
               Txt(" exceeds threshold of $"),
               Num(call.config.high_amount_threshold)>>)>>
     ELSE <<>>)
    \o (IF ExpectHighFrequency
        THEN <<(<<Txt(HighFrequencyText), Num(Cardinality(History) + 1),
                  Txt(" transactions in "),
                  Num(call.config.time_window_minutes),
                  Txt(" minute(s), threshold is "),
                  Num(call.config.frequency_threshold)>>)>>
        ELSE <<>>)
    \o (IF ExpectMultipleLarge
        THEN <<(<<Txt(MultipleLargeText), Num(LargeCount),
                  Txt(" transactions over $"),
                  Num(call.config.high_amount_threshold \div 2),
                  Txt(" in "), Num(call.config.time_window_minutes),
                  Txt(" minute(s)")>>)>>
        ELSE <<>>)
    \o (IF ExpectRapid THEN <<(<<Txt(RapidText)>>)>> ELSE <<>>)

(* C8: fraud_reason is null when no rule triggered; otherwise it is the
   reasons of the triggered rules, one per rule, in the order high amount,
   high frequency, multiple large transactions, rapid succession, with "; "
   between two reasons. *)
C8_ReasonsInRuleOrder ==
    Scored =>
        IF Len(ExpectedReasons) = 0
        THEN result.value.fraud_reason = Null
        ELSE /\ ~result.value.fraud_reason.null
             /\ SplitAtSeparator(result.value.fraud_reason.text)
                    = ExpectedReasons

C8_Witness ==
    /\ Scored
    /\ Len(ExpectedReasons) = 4
    /\ ~result.value.fraud_reason.null
    /\ Len(SplitAtSeparator(result.value.fraud_reason.text)) = 4

(* C9: a scoring call with the same user, amount, time, configuration and
   recent history returns the same verdict as the call that has just
   returned, in whatever order the table hands it that history. *)
C9_Deterministic ==
    Scored =>
        \A order \in Perms(History) :
            score(call.amount, call.config,
                  [k \in DOMAIN order |-> store[order[k]]]).verdict
                = result.value

C9_Witness ==
    /\ Scored
    /\ \E i, j \in History : store[i].timestamp < store[j].timestamp
    /\ result.value.risk_score > 0

ValidConfig(config) ==
    /\ config.high_amount_threshold > 0
    /\ config.frequency_threshold > 0
    /\ config.time_window_minutes > 0

(* C10 as stated: with a valid configuration and an empty recent history,
   risk_score is 0 unless the high-amount rule triggers. *)
C10_EmptyHistoryScoresZero ==
    (Scored /\ ValidConfig(call.config) /\ History = {}) =>
        (~ExpectHighAmount => result.value.risk_score = 0)

(* C10 amended: with a valid configuration and an empty recent history,
   risk_score is 0 unless the high-amount rule triggers (50 points) or
   frequency_threshold is 1, where the candidate alone reaches the
   threshold and the frequency rule adds 35 points. *)
C10_EmptyHistoryScore ==
    (Scored /\ ValidConfig(call.config) /\ History = {}) =>
        result.value.risk_score =
            (IF ExpectHighAmount THEN 50 ELSE 0)
            + (IF call.config.frequency_threshold = 1 THEN 35 ELSE 0)

C10_Witness ==
    /\ Scored
    /\ ValidConfig(call.config)
    /\ History = {}
    /\ Len(store) > 0
    /\ call.config.frequency_threshold >= 2
    /\ 2 * call.amount > call.config.high_amount_threshold
    /\ ~ExpectHighAmount
    /\ result.value.risk_score = 0

(* the checks that added points in the call *)
Fired == {k \in 1..4 : Contribution(k) > 0}

(* C11 as stated: when exactly one rule fires, is_suspicious is true exactly
   when that rule is high amount, high frequency or multiple large, and
   false when it is rapid succession. *)
C11_AnyMajorRuleSuffices ==
    (Scored /\ Cardinality(Fired) = 1) =>
        (result.value.is_suspicious <=> Fired \subseteq {1, 2, 3})

(* C11 amended: when exactly one rule fires, is_suspicious is true exactly
   when that rule is high amount or multiple large (50 points each); high
   frequency alone (35) and rapid succession alone (20) stay below 50. *)
C11_SingleRuleVerdict ==
    (Scored /\ Cardinality(Fired) = 1) =>
        /\ result.value.is_suspicious <=> Fired \subseteq {1, 3}
        /\ Fired = {2} => result.value.risk_score = 35
        /\ Fired = {4} => result.value.risk_score = 20

C11_Witness ==
    /\ Scored
    /\ Fired = {2}
    /\ ExpectHighFrequency
    /\ ~ExpectHighAmount /\ ~ExpectMultipleLarge /\ ~ExpectRapid
    /\ Len(store) > 0
    /\ ~result.value.is_suspicious

(* the stored transactions of the given user that are not older than the
   window, in insertion order; the other rows are left out *)
OwnRecent ==
    LET inWindow(r) ==
            /\ r.user_id = call.userId
            /\ r.timestamp >= now - call.config.time_window_minutes * 60000
    IN  SelectSeq(store, inWindow)

(* C12: the verdict is the one obtained by scoring against exactly the stored
   transactions of the given user with timestamp >= time of the call minus
   time_window_minutes (inclusive); the transactions of other users and the
   older ones can be removed from the store without changing it. *)
C12_HistoryIsOwnRecent ==
    Scored =>
        result.value = score(call.amount, call.config, OwnRecent).verdict

C12_Witness ==
    /\ Scored
    /\ \E i \in DOMAIN store :
           /\ store[i].user_id = call.userId
           /\ store[i].timestamp =
                  now - call.config.time_window_minutes * 60000
    /\ \E j \in DOMAIN store : store[j].user_id # call.userId
    /\ Len(OwnRecent) = 1
    /\ \E k \in ReasonsOf(HighFrequencyText) :
           locals.fraudReasons[k][2] = Num(2)

(* the stored transactions of the user inside [call.at - window, call.at],
   call.at being the time the scoring call read the clock *)
WindowUpToCall ==
    LET inWindow(r) ==
            /\ r.user_id = call.userId
            /\ r.timestamp >=
                   call.at - call.config.time_window_minutes * 60000
            /\ r.timestamp <= call.at
    IN  SelectSeq(store, inWindow)

(* C13: the scoring window is [occursAt - window, occursAt]; a stored
   transaction of the user with a timestamp later than the time of the
   scoring call is not counted, so the verdict is the one scored against the
   rows inside that window. *)
C13_FutureTransactionsNotCounted ==
    Scored =>
        result.value = score(call.amount, call.config, WindowUpToCall).verdict

(* the value the client gave for a field of the config, or else the given
   default *)
Given(field, default) ==
    IF "config" \in DOMAIN call.input /\ field \in DOMAIN call.input.config
    THEN call.input.config[field]
    ELSE default

(* the config of the call with 10000, 5 and 1 written in for what the
   client left out *)
ExplicitConfig ==
    [high_amount_threshold |-> Given("high_amount_threshold", Dollars(10000)),
     frequency_threshold |-> Given("frequency_threshold", 5),
     time_window_minutes |-> Given("time_window_minutes", 1)]

(* C14: a scoring call returns the verdict of the same call with every
   absent configuration value replaced by its default (10000, 5, 1) and
   every supplied value kept; a call without configuration returns the
   verdict of the call with the three defaults. *)
C14_AbsentValuesDefault ==
    Scored =>
        LET inWindow(r) ==
                /\ r.user_id = call.input.user_id
                /\ r.timestamp >=
                       now - ExplicitConfig.time_window_minutes * 60000
        IN  result.value = score(call.input.amount, ExplicitConfig,
                                 SelectSeq(store, inWindow)).verdict

C14_Witness ==
    /\ Scored
    /\ "config" \in DOMAIN call.input
    /\ DOMAIN call.input.config = {"frequency_threshold"}
    /\ call.input.config.frequency_threshold = 2
    /\ \E k \in ReasonsOf(HighFrequencyText) :
           /\ locals.fraudReasons[k][4] = Num(1)
           /\ locals.fraudReasons[k][6] = Num(2)
    /\ \E i \in DOMAIN store :
           /\ store[i].user_id = call.userId
           /\ store[i].timestamp < now - 60000

(* the rows the history query of the call matches in the table *)
Matched ==
    LET inWindow(r) ==
            /\ r.user_id = call.userId
            /\ r.timestamp >=
                   call.at - call.config.time_window_minutes * 60000
    IN  SelectSeq(store, inWindow)

(* a step in which a scoring call starts or returns *)
ScoringStep ==
    \/ pending' # pending
    \/ call.op = "none" /\ call'.op = "runFraudDetection"

(* C15: a scoring call leaves the table and its arguments unchanged, and
   whatever other calls are pending or were served before it, it returns
   the verdict that scoring its arguments against the table alone gives. *)
C15_ScoringOnlyReads ==
    /\ [](Scored =>
            result.value = score(call.amount, call.config, Matched).verdict)
    /\ [][ScoringStep => store' = store]_vars
    /\ [][\A p \in pending \ pending' :
              /\ call'.userId = p.userId
              /\ call'.amount = p.amount
              /\ call'.config = p.config]_vars

C15_Witness ==
    /\ Scored
    /\ \E p \in pending : p.at > call.at
    /\ Len(Matched) = 2
    /\ result.value.risk_score = 50

(* C16: when the history query of a scoring call fails, the call fails with
   the error of the query and returns no verdict; it is not scored as if
   the history were empty. *)
C16_QueryErrorPropagates ==
    (call.op = "runFraudDetection" /\ call.historyQuery = "rejected") =>
        /\ ~result.ok
        /\ result.error = "query failed"
        /\ "value" \notin DOMAIN result

C16_Witness ==
    /\ call.op = "runFraudDetection"
    /\ call.historyQuery = "rejected"
    /\ ~result.ok
    /\ \E i \in DOMAIN store : store[i].user_id = call.userId
    /\ locals.riskScore = <<50>>

(* an update that has just returned a record, and the row it names *)
Updated == call.op = "updateTransactionStatus" /\ result.ok

Target == store[CHOOSE i \in DOMAIN store : store[i].id = call.input.id]

(* C17: after a successful updateTransactionStatus to 'flagged' the record
   is suspicious, in the table and in the value returned, whatever
   is_suspicious was before. *)
C17_FlaggedIsSuspicious ==
    (Updated /\ call.input.status = "flagged") =>
        /\ Target.is_suspicious
        /\ result.value.is_suspicious

C17_Witness ==
    /\ Updated
    /\ call.input.status = "flagged"
    /\ "fraud_reason" \notin DOMAIN call.input
    /\ Target.amount = toNumeric(Dollars(100))
    /\ Target.fraud_reason = Null
    /\ Target.is_suspicious

(* C18: after every successful updateTransactionStatus the record has the
   requested status and is_suspicious = (status = 'flagged'), in the table
   and in the value returned; pending, completed and failed clear the flag
   of a transaction the engine had found suspicious. *)
C18_SuspiciousFollowsStatus ==
    Updated =>
        /\ Target.status = call.input.status
        /\ Target.is_suspicious = (call.input.status = "flagged")
        /\ result.value.status = call.input.status
        /\ result.value.is_suspicious = (call.input.status = "flagged")

C18_Witness ==
    /\ Updated
    /\ call.input.status = "completed"
    /\ "fraud_reason" \notin DOMAIN call.input
    /\ Target.amount = toNumeric(Dollars(12000))
    /\ Target.fraud_reason \notin {Null, ManualReason}
    /\ ~Target.is_suspicious

(* a step in which updateTransactionStatus is served *)
UpdateStep == call.op = "none" /\ call'.op = "updateTransactionStatus"

(* C19: a successful updateTransactionStatus changes nothing but status and
   is_suspicious of the record it names and, when the input has a
   fraud_reason (a text or null), its fraud_reason; without one the
   fraud_reason stays, and id, transaction_id, user_id, amount, timestamp,
   created_at and every other record stay as they were. *)
C19_UpdateFrame ==
    [][(UpdateStep /\ result'.ok) =>
          /\ DOMAIN store' = DOMAIN store
          /\ \A i \in DOMAIN store :
                 IF store[i].id = call'.input.id
                 THEN /\ DOMAIN store'[i] = DOMAIN store[i]
                      /\ \A f \in {"id", "transaction_id", "user_id", "amount",
                                   "timestamp", "created_at"} :
                             store'[i][f] = store[i][f]
                      /\ store'[i].fraud_reason =
                             IF "fraud_reason" \in DOMAIN call'.input
                             THEN call'.input.fraud_reason
                             ELSE store[i].fraud_reason
                 ELSE store'[i] = store[i]]_vars

C19_Witness ==
    /\ Updated
    /\ "fraud_reason" \notin DOMAIN call.input
    /\ Target.fraud_reason = ManualReason
    /\ Target.status = "failed"
    /\ \E i \in DOMAIN store :
           /\ store[i].id # call.input.id
           /\ store[i].status = "flagged"
           /\ store[i].fraud_reason = Null

(* C20: updateTransactionStatus with an id that no stored transaction has
   fails with a 'not found' error and leaves the table as it was. *)
C20_UnknownIdFails ==
    [][(UpdateStep /\ \A i \in DOMAIN store : store[i].id # call'.input.id) =>
          /\ ~result'.ok
          /\ result'.error = "not found"
          /\ store' = store]_vars

C20_Witness ==
    /\ call.op = "updateTransactionStatus"
    /\ \A i \in DOMAIN store : store[i].id # call.input.id
    /\ ~result.ok
    /\ call.input.status = "flagged"
    /\ "fraud_reason" \in DOMAIN call.input
    /\ Len(store) = 2
    /\ \A i \in DOMAIN store : store[i].status = "pending"

(* a createTransaction that has just inserted its record, the record, and
   the table as the call found it *)
Created == call.op = "createTransaction" /\ result.ok

NewRecord == store[Len(store)]

Before == SubSeq(store, 1, Len(store) - 1)

(* the verdict of the four-rule engine with the default configuration for
   the user, amount and time of the new record against the table before *)
EngineVerdict ==
    LET inWindow(r) ==
            /\ r.user_id = call.input.user_id
            /\ r.timestamp >=
                   NewRecord.timestamp
                   - DefaultConfig.time_window_minutes * 60000
    IN  score(call.input.amount, DefaultConfig,
              SelectSeq(Before, inWindow)).verdict

(* C21: the is_suspicious and fraud_reason createTransaction stores are the
   verdict of runFraudDetection with the default configuration for the same
   user, amount, time and stored history. *)
C21_CreateStoresEngineVerdict ==
    Created =>
        /\ NewRecord.is_suspicious = EngineVerdict.is_suspicious
        /\ NewRecord.fraud_reason = EngineVerdict.fraud_reason

(* how many transactions of the user of the new record the table held
   before, not older than a minute *)
StoredInLastMinute ==
    Cardinality({i \in DOMAIN Before :
                    /\ Before[i].user_id = call.input.user_id
                    /\ Before[i].timestamp >= NewRecord.timestamp - 60000})

AmountReason == <<Txt("High amount: $"), Num(call.input.amount)>>

FrequencyReason ==
    <<Txt("High frequency: "), Num(StoredInLastMinute),
      Txt(" transactions in "), Num(1), Txt(" minute(s)")>>

(* C22: createTransaction stores is_suspicious = true exactly when the
   amount is at least 10000 or the user already has at least 5 stored
   transactions within the last minute, with the triggered reasons joined
   by "; " as fraud_reason; otherwise it stores false and null. *)
C22_CreateRules ==
    Created =>
        LET high == call.input.amount >= Dollars(10000)
            frequent == StoredInLastMinute >= 5
        IN  /\ NewRecord.is_suspicious = (high \/ frequent)
            /\ NewRecord.fraud_reason =
                   IF high /\ frequent
                   THEN Str(AmountReason \o <<Txt("; ")>> \o FrequencyReason)
                   ELSE IF high THEN Str(AmountReason)
                   ELSE IF frequent THEN Str(FrequencyReason)
                   ELSE Null

C22_Witness ==
    /\ Created
    /\ call.input.amount = Dollars(10000)
    /\ StoredInLastMinute = 5
    /\ Len(Before) = 5
    /\ \A i \in DOMAIN Before : Before[i].timestamp = NewRecord.timestamp - 60000
    /\ NewRecord.is_suspicious
    /\ Len(NewRecord.fraud_reason.text) = 8

(* a step in which createTransaction is served and inserts *)
CreateStep ==
    call.op = "none" /\ call'.op = "createTransaction" /\ result'.ok

(* C23: a successful createTransaction adds exactly one record, with the
   transaction_id, user_id, amount and status of the input and the time of
   the call as timestamp, returns that record, and changes no record that
   was there. *)
C23_CreateAddsTheInput ==
    [][CreateStep =>
          /\ Len(store') = Len(store) + 1
          /\ SubSeq(store', 1, Len(store)) = store
          /\ LET record == store'[Len(store')]
                 input == call'.input
             IN  /\ record.transaction_id = input.transaction_id
                 /\ record.user_id = input.user_id
                 /\ parseFloat(record.amount) = input.amount
                 /\ record.status = input.status
                 /\ record.timestamp = now
                 /\ result'.value =
                        [record EXCEPT !.amount = parseFloat(@)]]_vars

(* a getTransactions call that has just returned, the filters and the page
   it asked for (limit 100 and offset 0 without input), and the stored
   transactions that match every filter given *)
Listed == call.op = "getTransactions" /\ result.ok

Asked ==
    IF "undefined" \in DOMAIN call.input THEN [limit |-> 100, offset |-> 0]
    ELSE call.input

Filtered ==
    {i \in DOMAIN store :
        /\ "user_id" \in DOMAIN Asked => store[i].user_id = Asked.user_id
        /\ "is_suspicious" \in DOMAIN Asked =>
               store[i].is_suspicious = Asked.is_suspicious}

IdsOf(page) == {page[k].id : k \in DOMAIN page}

(* how many of n rows are left from position offset on, at most limit *)
PageLength(n, limit, offset) ==
    IF n <= offset THEN 0 ELSE Min(limit, n - offset)

(* C24: getTransactions returns stored transactions that match every filter
   given, by descending timestamp, at the positions [offset, offset + limit)
   of the filtered list ordered by descending timestamp; and the page that
   follows (offset + limit) is disjoint from the page returned, the two
   together being the positions [offset, offset + 2 * limit). *)
C24_ListingPages ==
    Listed =>
        LET page == result.value
            first == Asked.offset
        IN  /\ Len(page) =
                   PageLength(Cardinality(Filtered), Asked.limit, first)
            /\ \A k \in DOMAIN page :
                   /\ \E i \in Filtered :
                          page[k] = [store[i] EXCEPT !.amount = parseFloat(@)]
                   /\ \A m \in DOMAIN page : page[m].id = page[k].id => m = k
                   /\ k < Len(page) =>
                          page[k].timestamp >= page[k + 1].timestamp
                   /\ Cardinality({i \in Filtered :
                          store[i].timestamp > page[k].timestamp})
                          <= first + k - 1
                   /\ Cardinality({i \in Filtered :
                          store[i].timestamp >= page[k].timestamp})
                          >= first + k
            /\ \A next \in getTransactionsResults(store,
                               [Asked EXCEPT !.offset = first + Asked.limit]) :
                   /\ IdsOf(page) \cap IdsOf(next) = {}
                   /\ Cardinality(IdsOf(page) \cup IdsOf(next)) =
                          PageLength(Cardinality(Filtered),
                                     2 * Asked.limit, first)

(* C25: getSuspiciousTransactions returns exactly the stored transactions
   with is_suspicious true, those with a null fraud_reason included, each
   once, by descending timestamp, and leaves the table unchanged. *)
C25_SuspiciousListing ==
    /\ [](call.op = "getSuspiciousTransactions" =>
            LET listed == result.value
            IN  /\ result.ok
                /\ IdsOf(listed) =
                       {store[i].id : i \in whereSuspicious(store)}
                /\ Len(listed) = Cardinality(IdsOf(listed))
                /\ \A k \in DOMAIN listed :
                       /\ \E i \in DOMAIN store :
                              /\ store[i].is_suspicious
                              /\ listed[k] =
                                     [store[i] EXCEPT !.amount = parseFloat(@)]
                       /\ k < Len(listed) =>
                              listed[k].timestamp >= listed[k + 1].timestamp)
    /\ [][(call.op = "none" /\ call'.op = "getSuspiciousTransactions") =>
             store' = store]_vars

C25_Witness ==
    /\ call.op = "getSuspiciousTransactions"
    /\ Len(result.value) = 2
    /\ result.value[1].timestamp > result.value[2].timestamp
    /\ result.value[1].fraud_reason = Null
    /\ result.value[2].fraud_reason # Null
    /\ \E i \in DOMAIN store :
           ~store[i].is_suspicious /\ store[i].timestamp > result.value[2].timestamp

(* the stored transactions of the user the summary was asked for *)
OfUser == {i \in DOMAIN store : store[i].user_id = call.userId}

(* the sum of the amounts of the stored transactions in S *)
RECURSIVE AmountOf(_)
AmountOf(S) ==
    IF S = {} THEN 0
    ELSE LET i == CHOOSE j \in S : TRUE
         IN  store[i].amount * 10 + AmountOf(S \ {i})

(* C26: getUserTransactionSummary(u) returns the count of the stored
   transactions of u, the sum of their amounts, the count of the suspicious
   ones (at most the total), and their greatest timestamp, or null with
   zero counts when u has none. *)
C26_UserSummary ==
    call.op = "getUserTransactionSummary" =>
        LET value == result.value
        IN  /\ result.ok
            /\ value.user_id = call.userId
            /\ value.total_transactions = Cardinality(OfUser)
            /\ value.total_amount = AmountOf(OfUser)
            /\ value.suspicious_transactions =
                   Cardinality({i \in OfUser : store[i].is_suspicious})
            /\ value.suspicious_transactions <= value.total_transactions
            /\ IF OfUser = {}
               THEN /\ value.last_transaction_at = NoDate
                    /\ value.total_transactions = 0
                    /\ value.total_amount = 0
                    /\ value.suspicious_transactions = 0
               ELSE /\ ~value.last_transaction_at.null
                    /\ \E i \in OfUser :
                           store[i].timestamp = value.last_transaction_at.time
                    /\ \A i \in OfUser :
                           store[i].timestamp <= value.last_transaction_at.time

C26_Witness ==
    /\ call.op = "getUserTransactionSummary"
    /\ call.userId = "user1"
    /\ result.value.total_transactions = 2
    /\ result.value.suspicious_transactions = 1
    /\ result.value.total_amount = Dollars(12100)
    /\ result.value.last_transaction_at = Date(60000)
    /\ \E i \in DOMAIN store :
           store[i].user_id = "user2" /\ store[i].timestamp = 120000

(* the transactions of the user of the new record, not older than a minute,
   among the first n rows of the table *)
RecentAmong(n) ==
    Cardinality({i \in 1..n :
                    /\ store[i].user_id = call.input.user_id
                    /\ store[i].timestamp >= NewRecord.timestamp - 60000})

(* C27: createTransaction reads the recent history and inserts in two
   steps, so the flag it stores is the verdict against the table as it was
   when the history was read (call.seen rows), whatever concurrent calls
   inserted before its own insert; the witness is an interleaving that
   leaves six transactions of one user in one minute with none suspicious,
   which no serial execution does. *)
C27_ScoredAgainstStaleWindow ==
    Created =>
        /\ call.seen <= Len(Before)
        /\ NewRecord.is_suspicious =
               (\/ call.input.amount >= Dollars(10000)
                \/ RecentAmong(call.seen) >= 5)

C27_Witness ==
    /\ Created
    /\ Len(store) = 6
    /\ call.seen = 4
    /\ RecentAmong(Len(Before)) = 5
    /\ \A i \in DOMAIN store : ~store[i].is_suspicious
    /\ \A i \in DOMAIN store : store[i].timestamp = NewRecord.timestamp

(* C28: every stored transaction whose status is 'flagged' has
   is_suspicious = true. *)
C28_FlaggedImpliesSuspicious ==
    \A i \in DOMAIN store :
        store[i].status = "flagged" => store[i].is_suspicious

(* the rows of the history in the given order of their positions *)
InOrder(order) == [k \in DOMAIN order |-> store[order[k]]]

(* C29: the verdict is the same for every order in which the query may
   return the recent history, and the rapid-succession rule has fired
   exactly when two distinct transactions of the history are less than
   30 seconds apart. *)
C29_OrderIndependent ==
    Scored =>
        /\ \A order \in Perms(History) :
               score(call.amount, call.config, InOrder(order)).verdict
                   = result.value
        /\ Contribution(4) = 20 <=>
               \E i, j \in History :
                   /\ i # j
                   /\ store[i].timestamp - store[j].timestamp < 30000
                   /\ store[j].timestamp - store[i].timestamp < 30000

C29_Witness ==
    /\ Scored
    /\ Cardinality(History) = 3
    /\ Contribution(4) = 20
    /\ \E i, j, k \in History :
           /\ store[j].timestamp - store[i].timestamp >= 30000
           /\ store[k].timestamp - store[j].timestamp = 15000

(* the outcome of scoring the call against the history without row i *)
Without(i) ==
    score(call.amount, call.config,
          InOrder(CHOOSE order \in Perms(History \ {i}) : TRUE))

(* the points check k added in an outcome of score *)
PointsIn(outcome, k) ==
    outcome.locals.riskScore[k]
        - (IF k = 1 THEN 0 ELSE outcome.locals.riskScore[k - 1])

(* C30: with one more transaction in the recent history, the user, amount,
   time and configuration being the same, risk_score is not lower,
   is_suspicious does not go from true to false, and every rule that had
   triggered still triggers. *)
C30_MonotoneInHistory ==
    Scored =>
        \A i \in History :
            /\ Without(i).verdict.risk_score <= result.value.risk_score
            /\ Without(i).verdict.is_suspicious => result.value.is_suspicious
            /\ \A k \in 1..4 : PointsIn(Without(i), k) > 0 => k \in Fired

C30_Witness ==
    /\ Scored
    /\ Cardinality(History) = 3
    /\ \E i \in History, k \in Fired :
           /\ PointsIn(Without(i), k) = 0
           /\ Without(i).verdict.risk_score < result.value.risk_score
    /\ \E i \in History :
           Without(i).verdict.risk_score = result.value.risk_score

====
